---- MODULE Spec2Model ----
(***************************************************************************)
(* Model of the command invoker (src/src/utils/request.ts) and of its      *)
(* callers: the token-stats dashboard's fetchData, the account service's   *)
(* completeOAuthLogin, the OAuthCallback page, and pickTextFile.           *)
(*                                                                         *)
(* request() is an async function: it runs atomically between its two      *)
(* awaits (fetch, resp.json()).  Each call is one entry of `calls`.        *)
(***************************************************************************)
EXTENDS Integers, Sequences, FiniteSets, TLC

\* ------------------------------------------------------------------ bounds
MaxCalls == 2
MaxFetches == 2

Calls == 1..MaxCalls
Fetches == 1..MaxFetches

\* ------------------------------------------------------- values and inputs
Absent == "<absent>"

Cmds == {"list_accounts", "fetch_account_quota"}

\* A mapping is a set of <<name, value>> pairs.
EmptyMapping == {}

\* The optional parameter `args` (typed any): omitted (undefined), null, a
\* mapping, or an object JSON.stringify cannot serialise: the object o with
\* o.accountId = 'acct_1' and o.self = o.
ArgsUndefined == [tag |-> "undefined", map |-> {}]
ArgsNull == [tag |-> "null", map |-> {}]
ArgsCircular ==
    [tag |-> "circular",
     map |-> {<<"accountId", "acct_1">>, <<"self", "<itself>">>}]
ArgsInputs ==
    { ArgsUndefined, ArgsNull, ArgsCircular,
      [tag |-> "map", map |-> EmptyMapping],
      [tag |-> "map", map |-> {<<"accountId", "acct_1">>}] }

\* HTTP statuses the backend may answer with.
Statuses == {200, 500}

\* Response bodies: text that is not JSON (raw holds its pieces), the JSON
\* value null, or an object read through the InvokeResponse interface
\* {ok, data?, error?}.  A failure envelope carries no data.
NoBody ==
    [kind |-> "none", raw |-> <<>>, ok |-> FALSE, data |-> Absent,
     error |-> Absent]
\* An HTML error page that names the status, and a plain-text one.
RawTexts == { <<"<h1>", "500", "</h1>">>, <<"Bad Gateway">> }
Bodies ==
    [kind : {"unparsable"}, raw : RawTexts, ok : {FALSE}, data : {Absent},
     error : {Absent}]
    \cup
    { [kind |-> "null", raw |-> <<>>, ok |-> FALSE, data |-> Absent,
       error |-> Absent] }
    \cup
    [kind : {"object"}, raw : {<<>>}, ok : {TRUE}, data : {Absent, "X"},
     error : {Absent, "", "boom"}]
    \cup
    [kind : {"object"}, raw : {<<>>}, ok : {FALSE}, data : {Absent},
     error : {Absent, "", "boom"}]

\* Error values: the class name and the message, a sequence of the pieces the
\* code concatenates.
NoError == [name |-> "none", message |-> <<>>]
MkError(name, message) == [name |-> name, message |-> message]

\* What fetch() rejects with when the backend cannot be reached.
FetchError == MkError("TypeError", <<"Failed to fetch">>)
\* The first character of a body text of RawTexts.
FirstChar(raw) ==
    CASE raw[1] = "<h1>" -> "<"
      [] raw[1] = "Bad Gateway" -> "B"
\* What resp.json() throws on a body of RawTexts.  The text is the engine's
\* (here V8's, for a short body whose first character starts no JSON value:
\* it names that character and quotes the body); request() takes no part in
\* it.
JsonError(raw) ==
    MkError("SyntaxError",
            <<"Unexpected token '", FirstChar(raw), "', \"">> \o raw
              \o <<"\" is not valid JSON">>)
\* What JSON.stringify throws on ArgsCircular; the text is the engine's (V8)
\* and describes the cycle of that object.
StringifyError ==
    MkError("TypeError",
            <<"Converting circular structure to JSON",
              "\n    --> starting at object with constructor 'Object'",
              "\n    --- property 'self' closes the circle">>)
\* What reading property p of a null payload throws.
NullReadError(p) ==
    MkError("TypeError", <<"Cannot read properties of null (reading '", p, "')">>)

\* ----------------------------------------------------------- pure helpers
API_PATH == "/api/invoke"

\* args ?? {} : only undefined and null are replaced.
ArgsOrDefaultKeep(args) == args
ArgsOrDefault(args) ==
    IF args.tag \in {"undefined", "null"}
    THEN [tag |-> "map", map |-> EmptyMapping]
    ELSE args

\* The fetch() call of lines 11-17; body is the JSON text {cmd, args} as the
\* backend parses it.
RequestInit(cmd, args) ==
    [method |-> "POST", url |-> API_PATH,
     body |-> [cmd |-> cmd, args |-> ArgsOrDefault(args)]]

NoRequest ==
    [method |-> "none", url |-> "none",
     body |-> [cmd |-> "none", args |-> ArgsUndefined]]

\* Response.ok
RespOkAlways(status) == TRUE
RespOk(status) == status >= 200 /\ status <= 299

\* JavaScript truthiness of payload.error (a string or undefined).
Truthy(s) == s # Absent /\ s # ""

\* line 20: payload.error || `Request failed: ${resp.status}`
ErrorMessageStatusOnly(status, body) ==
    IF RespOk(status) /\ Truthy(body.error)
    THEN <<body.error>>
    ELSE <<"Request failed: ", ToString(status)>>
ErrorMessageNoStatus(status, body) ==
    IF Truthy(body.error)
    THEN <<body.error>>
    ELSE <<"Request failed">>
ErrorMessage(status, body) ==
    IF Truthy(body.error)
    THEN <<body.error>>
    ELSE <<"Request failed: ", ToString(status)>>

\* line 23: payload.data
PayloadDataOrEmpty(body) == IF body.data = Absent THEN "{}" ELSE body.data
PayloadData(body) == body.data

\* Outcomes of the promise request() returns.
Pending == [kind |-> "pending", value |-> Absent, error |-> NoError]
Resolved(v) == [kind |-> "resolved", value |-> v, error |-> NoError]
Rejected(e) == [kind |-> "rejected", value |-> Absent, error |-> e]

\* Lines 18-23, the try block after the body arrived: the value returned
\* or the error thrown.
TryBody(status, body) ==
    IF body.kind = "unparsable" THEN Rejected(JsonError(body.raw))
    ELSE IF body.kind = "null"
         THEN Rejected(NullReadError(IF RespOk(status) THEN "ok" ELSE "error"))
    ELSE IF ~RespOk(status) \/ ~body.ok
         THEN Rejected(MkError("Error", ErrorMessage(status, body)))
    ELSE Resolved(PayloadData(body))

\* ------------------------------------------------------------------ state
VARIABLES calls

\* State of the TokenStats component (useState of lines 43-47) and its
\* fetchData invocations.
VARIABLES timeRange, chartData, accountData, summary, loading, fetches

statsVars == <<timeRange, chartData, accountData, summary, loading, fetches>>

\* The other callers: one completeOAuthLogin call of the account service,
\* the OAuthCallback page, and one pickTextFile call.
VARIABLES login, page, picker

uiVars == <<login, page, picker>>
vars == <<calls, timeRange, chartData, accountData, summary, loading, fetches,
          login, page, picker>>

IdleCall ==
    [pc |-> "idle", cmd |-> "none", args |-> ArgsUndefined, req |-> NoRequest,
     nfetch |-> 0, failed |-> FALSE, status |-> 0, body |-> NoBody,
     logs |-> <<>>, nsettle |-> 0, outcome |-> Pending]

\* Lines 24-27: the catch block logs `API Error [cmd]` with the error and
\* rethrows it.  r is the call's record, e the error caught.
CatchWrap(r, e) ==
    [r EXCEPT !.pc = "rejected",
              !.logs = Append(@, [cmd |-> r.cmd, error |-> e]),
              !.nsettle = @ + 1,
              !.outcome = Rejected(MkError("Error", <<"API Error">> \o e.message))]
CatchSwallow(r, e) ==
    [r EXCEPT !.pc = "hung", !.logs = Append(@, [cmd |-> r.cmd, error |-> e])]
Catch(r, e) ==
    [r EXCEPT !.pc = "rejected",
              !.logs = Append(@, [cmd |-> r.cmd, error |-> e]),
              !.nsettle = @ + 1,
              !.outcome = Rejected(e)]

\* line 23 reached: the promise resolves, nothing is logged.
Return(r, v) ==
    [r EXCEPT !.pc = "resolved", !.nsettle = @ + 1, !.outcome = Resolved(v)]

\* Every call has its own frame; the module keeps no state between calls.
SetCallShared(c, r) ==
    [d \in Calls |->
        IF d = c THEN r
        ELSE IF r.pc = "rejected" /\ calls[d].pc \in {"fetching", "reading"}
             THEN Catch(calls[d], r.outcome.error)
             ELSE calls[d]]
SetCall(c, r) == [calls EXCEPT ![c] = r]

InitCalls == calls = [c \in Calls |-> IdleCall]

\* ------------------------------------------- TokenStats.tsx: fetchData
TimeRanges == {"hourly", "daily", "weekly"}

\* The switch of lines 55-68: the hours window of a time range.
HoursOf(range) ==
    CASE range = "hourly" -> 24
      [] range = "daily" -> 168
      [] range = "weekly" -> 720

\* Values the backend returns, identified by the fetchData invocation that
\* asked for them and by the parameter of the command.
NoData == [by |-> 0, range |-> "none", hours |-> 0]
ChartOf(f, range) == [by |-> f, range |-> range, hours |-> 0]
StatsOf(f, hours) == [by |-> f, range |-> "none", hours |-> hours]

\* One fetchData invocation: where it stands, the timeRange its closure
\* captured, its local `hours`, and the two promises given to Promise.all.
IdleFetch ==
    [pc |-> "idle", range |-> "none", hours |-> 0,
     acc |-> "none", sum |-> "none"]

InitStats ==
    /\ timeRange = "daily"
    /\ chartData = NoData
    /\ accountData = NoData
    /\ summary = NoData
    /\ loading = TRUE
    /\ fetches = [f \in Fetches |-> IdleFetch]


\* ------------------------------------- account service: completeOAuthLogin
\* Thrown values are errors (name, message) or plain strings, written with
\* the name "string".
MkString(pieces) == [name |-> "string", message |-> pieces]
TypeOf(e) == IF e.name = "string" THEN "string" ELSE "object"

\* The pieces of the backend's messages, to decide String.includes.
Fragments(s) ==
    CASE s = "invalid refresh_token" -> <<"invalid ", "refresh_token">>
      [] s = "No Refresh Token returned" -> <<"No ", "Refresh Token", " returned">>
      [] OTHER -> <<s>>
StrIncludes(s, sub) ==
    \E i \in 1..Len(Fragments(s)) : Fragments(s)[i] = sub
\* error.includes(sub) on a string value made of the given pieces.
TextIncludes(pieces, sub) ==
    \E i \in 1..Len(pieces) : StrIncludes(pieces[i], sub)

\* i18n.t(key, { error }): the localized message built from the error.
I18nT(key, e) == MkString(<<key>> \o e.message)

OAuthCodes == {"abc", "xyz"}
RedirectUri == "/oauth/callback"

\* Bodies the backend answers complete_oauth_login with.
OAuthBodies ==
    { [kind |-> "unparsable", raw |-> <<"Bad Gateway">>, ok |-> FALSE,
       data |-> Absent, error |-> Absent],
      [kind |-> "object", raw |-> <<>>, ok |-> TRUE, data |-> "account",
       error |-> Absent] }
    \cup
    [kind : {"object"}, raw : {<<>>}, ok : {FALSE}, data : {Absent},
     error : {Absent, "boom", "invalid refresh_token",
              "No Refresh Token returned"}]

\* What request() settles with, given what the transport did (request.ts
\* lines 9-28): the catch rethrows the error it caught.
RequestOutcome(failed, status, body) ==
    IF failed THEN Rejected(FetchError) ELSE TryBody(status, body)

\* The catch block of completeOAuthLogin: the value it throws on catching e.
CompleteOAuthCatch(e) ==
    IF TypeOf(e) = "string"
    THEN IF TextIncludes(e.message, "Refresh Token")
            \/ TextIncludes(e.message, "refresh_token")
         THEN e
         ELSE I18nT("accounts.add.oauth_error", e)
    ELSE e

IdleLogin ==
    [pc |-> "idle", req |-> NoRequest, status |-> 0, body |-> NoBody,
     invoked |-> Pending, outcome |-> Pending]

InitLogin == login = IdleLogin

\* completeOAuthLogin(code, redirectUri) is called: invoke is awaited.
CompleteOAuthLogin(code) ==
    /\ login.pc = "idle"
    /\ login' = [login EXCEPT
                   !.pc = "fetching",
                   !.req = RequestInit("complete_oauth_login",
                              [tag |-> "map",
                               map |-> {<<"code", code>>,
                                        <<"redirectUri", RedirectUri>>}])]
    /\ UNCHANGED <<calls, statsVars, page, picker>>

\* invoke settled with outcome o: return its value, or run the catch block.
LoginSettle(r, o) ==
    [r EXCEPT !.pc = IF o.kind = "resolved" THEN "resolved" ELSE "rejected",
              !.req = NoRequest,
              !.invoked = o,
              !.outcome = IF o.kind = "resolved" THEN o
                          ELSE Rejected(CompleteOAuthCatch(o.error))]

\* The backend cannot be reached.
LoginFetchRejects ==
    /\ login.pc = "fetching"
    /\ login' = LoginSettle(login, RequestOutcome(TRUE, 0, NoBody))
    /\ UNCHANGED <<calls, statsVars, page, picker>>

\* The backend answers with the given status; the body is awaited.
LoginFetchResolves(status) ==
    /\ login.pc = "fetching"
    /\ login' = [login EXCEPT !.pc = "reading", !.status = status,
                              !.req = NoRequest]
    /\ UNCHANGED <<calls, statsVars, page, picker>>

\* The body arrived.
LoginJsonSettles(body) ==
    /\ login.pc = "reading"
    /\ login' = LoginSettle([login EXCEPT !.body = body],
                            RequestOutcome(FALSE, login.status, body))
    /\ UNCHANGED <<calls, statsVars, page, picker>>

\* ------------------------------------------------- OAuthCallback.tsx
\* URLSearchParams.get: null when the parameter is missing, else its text.
Null == "<null>"
CodeParams == {Null, "", "abc"}
ErrorParams == {Null, "", "access_denied"}

\* JavaScript truthiness of a string-or-null.
ParamTruthy(p) == p # Null /\ p # ""

\* String(err) of what completeOAuthLogin rejected with.
ErrString(e) ==
    IF TypeOf(e) = "string" THEN e.message ELSE <<e.name, ": ">> \o e.message

\* Values the store's completeOAuthLogin may reject with.
PageRejections ==
    { MkError("Error", <<"boom">>),
      MkString(<<"accounts.add.oauth_error", "boom">>) }

UnmountedPage ==
    [pc |-> "unmounted", code |-> Null, error |-> Null,
     message |-> <<"Completing OAuth...">>,
     ncalls |-> 0, navScheduled |-> FALSE, navigated |-> FALSE]

InitPage == page = UnmountedPage

\* Lines 10-25: the effect after the first render, on a URL whose code and
\* error parameters are as given.
OAuthEffectNoReturn(code, error) ==
    /\ page.pc = "unmounted"
    /\ page' = IF ~ParamTruthy(code)
               THEN [page EXCEPT !.pc = "done", !.code = code, !.error = error,
                                 !.message = <<"Missing OAuth code.">>]
               ELSE [page EXCEPT !.pc = "awaiting", !.code = code,
                                 !.error = error,
                                 !.message = IF ParamTruthy(error)
                                             THEN <<"OAuth failed: ", error>>
                                             ELSE @,
                                 !.ncalls = @ + 1]
    /\ UNCHANGED <<calls, statsVars, login, picker>>
OAuthEffect(code, error) ==
    /\ page.pc = "unmounted"
    /\ page' = IF ParamTruthy(error)
               THEN [page EXCEPT !.pc = "done", !.code = code, !.error = error,
                                 !.message = <<"OAuth failed: ", error>>]
               ELSE IF ~ParamTruthy(code)
               THEN [page EXCEPT !.pc = "done", !.code = code, !.error = error,
                                 !.message = <<"Missing OAuth code.">>]
               ELSE [page EXCEPT !.pc = "awaiting", !.code = code,
                                 !.error = error, !.ncalls = @ + 1]
    /\ UNCHANGED <<calls, statsVars, login, picker>>

\* Lines 26-29: completeOAuthLogin resolved: the message changes and the
\* navigation is scheduled.
OAuthThen ==
    /\ page.pc = "awaiting"
    /\ page' = [page EXCEPT !.pc = "resolved",
                            !.message = <<"OAuth completed. Redirecting...">>,
                            !.navScheduled = TRUE]
    /\ UNCHANGED <<calls, statsVars, login, picker>>

\* Lines 30-32: completeOAuthLogin rejected with err.
OAuthCatch(err) ==
    /\ page.pc = "awaiting"
    /\ page' = [page EXCEPT !.pc = "rejected",
                            !.message = <<"OAuth failed: ">> \o ErrString(err)]
    /\ UNCHANGED <<calls, statsVars, login, picker>>

\* Line 28: the timer fires and navigate('/accounts') runs.
OAuthTimer ==
    /\ page.navScheduled /\ ~page.navigated
    /\ page' = [page EXCEPT !.navigated = TRUE]
    /\ UNCHANGED <<calls, statsVars, login, picker>>

\* ------------------------------------------------ fileUtils.ts: pickTextFile
\* input.files of the change event.
FileLists == { <<>>, <<"a.json">>, <<"a.json", "b.txt">> }
\* reader.result when onload runs.
ReaderResults == { Null, "", "{}" }

PickPending == [kind |-> "pending", isNull |-> FALSE, name |-> Null, content |-> Null]
PickNull == [kind |-> "resolved", isNull |-> TRUE, name |-> Null, content |-> Null]
PickFile(name, content) ==
    [kind |-> "resolved", isNull |-> FALSE, name |-> name, content |-> content]

\* String(reader.result || '')
ContentOf(result) == IF result = Null \/ result = "" THEN "" ELSE result

\* resolve(v) of the promise executor: only the first call settles.
PickResolve(r, v) ==
    [r EXCEPT !.promise = IF @.kind = "pending" THEN v ELSE @,
              !.nsettle = IF r.promise.kind = "pending" THEN @ + 1 ELSE @]

IdlePicker ==
    [pc |-> "idle", file |-> Null, promise |-> PickPending, nsettle |-> 0]

InitPicker == picker = IdlePicker

\* Lines 11-15, 29: the input is created and clicked; the dialog opens.
PickTextFile ==
    /\ picker.pc = "idle"
    /\ picker' = [picker EXCEPT !.pc = "open"]
    /\ UNCHANGED <<calls, statsVars, login, page>>

\* Lines 16-28: the change event with the given input.files.
PickChange(files) ==
    /\ picker.pc = "open"
    /\ picker' = IF files = <<>>
                 THEN PickResolve([picker EXCEPT !.pc = "done"], PickNull)
                 ELSE [picker EXCEPT !.pc = "reading", !.file = files[1]]
    /\ UNCHANGED <<calls, statsVars, login, page>>

\* The user dismisses the dialog: no change event is dispatched, and
\* pickTextFile listens to nothing else.
PickCancel ==
    /\ picker.pc = "open"
    /\ picker' = [picker EXCEPT !.pc = "dismissed"]
    /\ UNCHANGED <<calls, statsVars, login, page>>

\* Lines 23-25: reader.onload.
ReaderLoad(result) ==
    /\ picker.pc = "reading"
    /\ picker' = PickResolve([picker EXCEPT !.pc = "done"],
                             PickFile(picker.file, ContentOf(result)))
    /\ UNCHANGED <<calls, statsVars, login, page>>

\* Line 26: reader.onerror.
ReaderError ==
    /\ picker.pc = "reading"
    /\ picker' = PickResolve([picker EXCEPT !.pc = "done"], PickNull)
    /\ UNCHANGED <<calls, statsVars, login, page>>

Init == InitCalls /\ InitStats /\ InitLogin /\ InitPage /\ InitPicker

UiNext ==
    \/ \E code \in OAuthCodes : CompleteOAuthLogin(code)
    \/ LoginFetchRejects
    \/ \E status \in Statuses : LoginFetchResolves(status)
    \/ \E body \in OAuthBodies : LoginJsonSettles(body)
    \/ \E code \in CodeParams, error \in ErrorParams : OAuthEffect(code, error)
    \/ OAuthThen
    \/ \E err \in PageRejections : OAuthCatch(err)
    \/ OAuthTimer
    \/ PickTextFile
    \/ \E files \in FileLists : PickChange(files)
    \/ PickCancel
    \/ \E result \in ReaderResults : ReaderLoad(result)
    \/ ReaderError

UiSpec == Init /\ [][UiNext]_vars


\* The next fetchData invocation not yet used.
Started == {f \in Fetches : fetches[f].pc # "idle"}
NextFetch == Cardinality(Started) + 1

\* Lines 49-68: fetchData starts: setLoading(true), then the chart command
\* of the captured timeRange is invoked and awaited.
StartFetch(f, range) ==
    /\ loading' = TRUE
    /\ fetches' = [fetches EXCEPT ![f] =
                     [pc |-> "chart", range |-> range, hours |-> HoursOf(range),
                      acc |-> "none", sum |-> "none"]]

\* Lines 86-88: the effect runs fetchData after the first render.
Mount ==
    /\ Started = {}
    /\ StartFetch(1, timeRange)
    /\ UNCHANGED <<uiVars, calls, timeRange, chartData, accountData, summary>>

\* Lines 107, 118, 129 and 86-88: a range button sets another timeRange; the
\* component renders again and the effect runs fetchData.
SetTimeRange(range) ==
    /\ Started # {}
    /\ NextFetch \in Fetches
    /\ range # timeRange
    /\ timeRange' = range
    /\ StartFetch(NextFetch, range)
    /\ UNCHANGED <<uiVars, calls, chartData, accountData, summary>>

\* Lines 140-146: the refresh button, disabled while loading, runs fetchData.
Refresh ==
    /\ Started # {}
    /\ NextFetch \in Fetches
    /\ ~loading
    /\ StartFetch(NextFetch, timeRange)
    /\ UNCHANGED <<uiVars, calls, timeRange, chartData, accountData, summary>>

\* Lines 58-75: the chart command resolved: setChartData, then the two
\* statistics commands are invoked and Promise.all is awaited.
ChartResolves(f) ==
    /\ fetches[f].pc = "chart"
    /\ chartData' = ChartOf(f, fetches[f].range)
    /\ fetches' = [fetches EXCEPT ![f].pc = "join",
                                  ![f].acc = "pending", ![f].sum = "pending"]
    /\ UNCHANGED <<uiVars, calls, timeRange, accountData, summary, loading>>

\* Lines 58-68, 79-83: the chart command rejected: catch, then finally.
ChartRejects(f) ==
    /\ fetches[f].pc = "chart"
    /\ loading' = FALSE
    /\ fetches' = [fetches EXCEPT ![f].pc = "done"]
    /\ UNCHANGED <<uiVars, calls, timeRange, chartData, accountData, summary>>

\* Lines 72-78, 81-83: Promise.all resolved with both results.
JoinResolved(f) ==
    /\ accountData' = StatsOf(f, fetches[f].hours)
    /\ summary' = StatsOf(f, fetches[f].hours)
    /\ loading' = FALSE

\* get_token_stats_by_account resolved; Promise.all resolves if the summary
\* did already.  After Promise.all rejected the result is dropped.
AccResolvesEarly(f) ==
    /\ fetches[f].acc = "pending"
    /\ fetches' = [fetches EXCEPT ![f].acc = "ok",
                                  ![f].pc = IF fetches[f].sum = "ok" THEN "done" ELSE @]
    /\ accountData' = StatsOf(f, fetches[f].hours)
    /\ IF fetches[f].pc = "join" /\ fetches[f].sum = "ok"
       THEN summary' = StatsOf(f, fetches[f].hours) /\ loading' = FALSE
       ELSE UNCHANGED <<summary, loading>>
    /\ UNCHANGED <<uiVars, calls, timeRange, chartData>>
AccResolves(f) ==
    /\ fetches[f].acc = "pending"
    /\ fetches' = [fetches EXCEPT ![f].acc = "ok",
                                  ![f].pc = IF fetches[f].sum = "ok" THEN "done" ELSE @]
    /\ IF fetches[f].pc = "join" /\ fetches[f].sum = "ok"
       THEN JoinResolved(f)
       ELSE UNCHANGED <<accountData, summary, loading>>
    /\ UNCHANGED <<uiVars, calls, timeRange, chartData>>

\* get_token_stats_summary resolved.
SumResolves(f) ==
    /\ fetches[f].sum = "pending"
    /\ fetches' = [fetches EXCEPT ![f].sum = "ok",
                                  ![f].pc = IF fetches[f].acc = "ok" THEN "done" ELSE @]
    /\ IF fetches[f].pc = "join" /\ fetches[f].acc = "ok"
       THEN JoinResolved(f)
       ELSE UNCHANGED <<accountData, summary, loading>>
    /\ UNCHANGED <<uiVars, calls, timeRange, chartData>>

\* Lines 72-75, 79-83: one of the two commands rejected.  The first
\* rejection rejects Promise.all: catch, then finally; a later one is dropped.
AccRejects(f) ==
    /\ fetches[f].acc = "pending"
    /\ fetches' = [fetches EXCEPT ![f].acc = "err", ![f].pc = "done"]
    /\ loading' = IF fetches[f].pc = "join" THEN FALSE ELSE loading
    /\ UNCHANGED <<uiVars, calls, timeRange, chartData, accountData, summary>>

SumRejects(f) ==
    /\ fetches[f].sum = "pending"
    /\ fetches' = [fetches EXCEPT ![f].sum = "err", ![f].pc = "done"]
    /\ loading' = IF fetches[f].pc = "join" THEN FALSE ELSE loading
    /\ UNCHANGED <<uiVars, calls, timeRange, chartData, accountData, summary>>

StatsNext ==
    \/ Mount
    \/ \E range \in TimeRanges : SetTimeRange(range)
    \/ Refresh
    \/ \E f \in Fetches : ChartResolves(f)
    \/ \E f \in Fetches : ChartRejects(f)
    \/ \E f \in Fetches : AccResolves(f)
    \/ \E f \in Fetches : SumResolves(f)
    \/ \E f \in Fetches : AccRejects(f)
    \/ \E f \in Fetches : SumRejects(f)

StatsSpec == Init /\ [][StatsNext]_vars


\* JSON.stringify of line 16 throws on the given args.
Unserialisable(args) == args.tag = "circular"

\* request(cmd, args) is called: lines 9-17 run up to the await of fetch().
\* When JSON.stringify throws, fetch is never called and the catch of lines
\* 24-27 runs at once.
Request(c, cmd, args) ==
    /\ calls[c].pc = "idle"
    /\ calls' = SetCall(c,
                  IF Unserialisable(args)
                  THEN Catch([calls[c] EXCEPT !.cmd = cmd, !.args = args],
                             StringifyError)
                  ELSE [calls[c] EXCEPT !.pc = "fetching", !.cmd = cmd,
                                        !.args = args,
                                        !.req = RequestInit(cmd, args),
                                        !.nfetch = @ + 1])
    /\ UNCHANGED <<statsVars, uiVars>>

\* fetch() rejects (backend unreachable): line 11 throws into the catch.
FetchRejectsRetry(c) ==
    /\ calls[c].pc = "fetching"
    /\ calls' = SetCall(c, IF calls[c].nfetch < 2
                           THEN [calls[c] EXCEPT !.nfetch = @ + 1]
                           ELSE Catch([calls[c] EXCEPT !.failed = TRUE,
                                                       !.args = ArgsUndefined,
                                                       !.req = NoRequest],
                                      FetchError))
    /\ UNCHANGED <<statsVars, uiVars>>
FetchRejects(c) ==
    /\ calls[c].pc = "fetching"
    /\ calls' = SetCall(c, Catch([calls[c] EXCEPT !.failed = TRUE,
                                                  !.args = ArgsUndefined,
                                                  !.req = NoRequest],
                                 FetchError))
    /\ UNCHANGED <<statsVars, uiVars>>

\* fetch() resolves with a response of the given status: line 11 completes
\* and line 18 awaits resp.json().  The request has been consumed by the
\* transport and args is not read again.
FetchResolves(c, status) ==
    /\ calls[c].pc = "fetching"
    /\ calls' = SetCall(c, [calls[c] EXCEPT !.pc = "reading",
                                             !.status = status,
                                             !.args = ArgsUndefined,
                                             !.req = NoRequest])
    /\ UNCHANGED <<statsVars, uiVars>>

\* resp.json() settles on the given body: lines 18-27.
JsonSettles(c, body) ==
    /\ calls[c].pc = "reading"
    /\ LET r == [calls[c] EXCEPT !.body = body]
           o == TryBody(calls[c].status, body)
       IN calls' = SetCall(c, IF o.kind = "resolved"
                              THEN Return(r, o.value)
                              ELSE Catch(r, o.error))
    /\ UNCHANGED <<statsVars, uiVars>>

Next ==
    \/ \E c \in Calls, cmd \in Cmds, args \in ArgsInputs : Request(c, cmd, args)
    \/ \E c \in Calls : FetchRejects(c)
    \/ \E c \in Calls, status \in Statuses : FetchResolves(c, status)
    \/ \E c \in Calls, body \in Bodies : JsonSettles(c, body)

Spec == Init /\ [][Next]_vars

\* The transport events of one call: the answer to its fetch() and the
\* arrival of the body resp.json() waits for.
Transport(c) ==
    \/ FetchRejects(c)
    \/ \E status \in Statuses : FetchResolves(c, status)
    \/ \E body \in Bodies : JsonSettles(c, body)

\* The transport eventually responds or fails, for every call.
FairSpec == Spec /\ \A c \in Calls : WF_vars(Transport(c))

\* ------------------------------------------------- properties of request()
Settled(c) == calls[c].pc \in {"resolved", "rejected"}
InFlight(c) == calls[c].pc \in {"fetching", "reading"}
Is2xx(status) == status \in 200..299
IsEnvelope(body) == body.kind = "object"
GotBody(c) == Settled(c) /\ ~calls[c].failed
Includes(message, piece) == \E i \in 1..Len(message) : message[i] = piece

\* C1: a call whose response arrived resolves if and only if the status is
\* 2xx and the envelope's ok flag is true; in every other case it rejects,
\* and a resolved value is never how a failure is reported.
C1_ResolvesIffOk ==
    \A c \in Calls :
        GotBody(c) /\ IsEnvelope(calls[c].body) =>
            /\ calls[c].outcome.kind \in {"resolved", "rejected"}
            /\ (calls[c].outcome.kind = "resolved")
                 <=> (Is2xx(calls[c].status) /\ calls[c].body.ok)
            /\ (calls[c].outcome.kind = "rejected")
                 <=> (calls[c].outcome.error # NoError)
C1_Witness ==
    \E c \in Calls :
        /\ GotBody(c) /\ IsEnvelope(calls[c].body)
        /\ calls[c].status = 500 /\ calls[c].body.ok
        /\ calls[c].outcome.kind = "rejected"

\* C2: a 2xx response whose envelope is {ok: true, data: X} makes the call
\* resolve to exactly X.
C2_SuccessPassthrough ==
    \A c \in Calls :
        /\ GotBody(c) /\ IsEnvelope(calls[c].body)
        /\ Is2xx(calls[c].status) /\ calls[c].body.ok
        => calls[c].outcome =
             [kind |-> "resolved", value |-> calls[c].body.data, error |-> NoError]
C2_Witness ==
    \E c \in Calls :
        /\ calls[c].pc = "resolved" /\ calls[c].body.data = "X"
        /\ calls[c].outcome.value = "X"
        /\ calls[c].cmd = "fetch_account_quota"

\* C3 as stated: an envelope {ok: false, error: m} makes the call reject with
\* message exactly m, for every status and every string m.
C3_Original ==
    \A c \in Calls :
        /\ GotBody(c) /\ IsEnvelope(calls[c].body)
        /\ ~calls[c].body.ok /\ calls[c].body.error # Absent
        => /\ calls[c].outcome.kind = "rejected"
           /\ calls[c].outcome.error.message = <<calls[c].body.error>>

\* C3 amended: an envelope {ok: false, error: m} with m a non-empty string
\* makes the call reject with message exactly m, for every status; with the
\* empty string the message is the synthesized 'Request failed: <status>'.
C3_ExplicitFailureMessage ==
    \A c \in Calls :
        /\ GotBody(c) /\ IsEnvelope(calls[c].body)
        /\ ~calls[c].body.ok /\ calls[c].body.error # Absent
        => /\ calls[c].outcome.kind = "rejected"
           /\ calls[c].outcome.error.name = "Error"
           /\ calls[c].body.error # ""
                => calls[c].outcome.error.message = <<calls[c].body.error>>
           /\ calls[c].body.error = ""
                => calls[c].outcome.error.message =
                     <<"Request failed: ", ToString(calls[c].status)>>
C3_Witness ==
    \E c \in Calls :
        /\ GotBody(c) /\ calls[c].status = 500
        /\ IsEnvelope(calls[c].body) /\ ~calls[c].body.ok
        /\ calls[c].body.error = "boom"
        /\ calls[c].outcome.error.message = <<"boom">>

\* C4 as stated: a non-2xx status with a body that has no error field, or
\* that cannot be parsed, makes the call reject with a message that includes
\* the status code.
C4_Original ==
    \A c \in Calls :
        /\ GotBody(c) /\ ~Is2xx(calls[c].status)
        /\ \/ IsEnvelope(calls[c].body) /\ calls[c].body.error = Absent
           \/ calls[c].body.kind = "unparsable"
        => /\ calls[c].outcome.kind = "rejected"
           /\ Includes(calls[c].outcome.error.message, ToString(calls[c].status))

\* C4 amended: a non-2xx status with a JSON object body that has no error
\* field makes the call reject with a message that includes the status code;
\* a body that cannot be parsed makes it reject with the SyntaxError
\* resp.json() threw, unaltered: the message is the engine's and request()
\* puts no 'Request failed: <status>' into it.
C4_SynthesizedMessage ==
    \A c \in Calls :
        GotBody(c) /\ ~Is2xx(calls[c].status) =>
            /\ IsEnvelope(calls[c].body) /\ calls[c].body.error = Absent
                => /\ calls[c].outcome.kind = "rejected"
                   /\ calls[c].outcome.error.name = "Error"
                   /\ Includes(calls[c].outcome.error.message,
                               ToString(calls[c].status))
            /\ calls[c].body.kind = "unparsable"
                => /\ calls[c].outcome.kind = "rejected"
                   /\ calls[c].outcome.error.name = "SyntaxError"
                   /\ calls[c].outcome.error.message[1] = "Unexpected token '"
                   /\ ~Includes(calls[c].outcome.error.message,
                                "Request failed: ")
C4_Witness ==
    \E c \in Calls :
        /\ GotBody(c) /\ calls[c].status = 500
        /\ IsEnvelope(calls[c].body) /\ calls[c].body.error = Absent
        /\ calls[c].outcome.kind = "rejected"
        /\ Includes(calls[c].outcome.error.message, "500")

\* C5: the request sent carries the given command; its args is always a
\* mapping, the empty one when no arguments were passed and the given one
\* otherwise.
C5_ArgumentDefaulting ==
    \A c \in Calls :
        calls[c].pc = "fetching" =>
            /\ calls[c].req.body.cmd = calls[c].cmd
            /\ calls[c].req.body.args.tag = "map"
            /\ calls[c].args.tag = "undefined"
                => calls[c].req.body.args.map = {}
            /\ calls[c].args.tag = "map"
                => calls[c].req.body.args.map = calls[c].args.map
C5_Witness ==
    \E c \in Calls :
        /\ calls[c].pc = "fetching" /\ calls[c].args.tag = "undefined"
        /\ calls[c].req.body.args = [tag |-> "map", map |-> {}]

\* C6 as stated: every started call has issued exactly one transport
\* request, a POST to /api/invoke, whatever its outcome; a call whose
\* transport request failed has logged once and rejected once.
C6_Original ==
    \A c \in Calls :
        /\ calls[c].pc # "idle" => calls[c].nfetch = 1
        /\ calls[c].pc = "idle" => calls[c].nfetch = 0
        /\ calls[c].pc = "fetching"
            => calls[c].req.method = "POST" /\ calls[c].req.url = "/api/invoke"
        /\ calls[c].failed
            => /\ Len(calls[c].logs) = 1
               /\ calls[c].nsettle = 1
               /\ calls[c].outcome.kind = "rejected"

\* C6 amended: a started call whose arguments can be serialised has issued
\* exactly one transport request, a POST to /api/invoke, whatever its
\* outcome; a call whose arguments cannot be serialised has issued none and
\* has logged once and rejected once; no call ever issues a second request,
\* and a call whose transport request failed has logged once and rejected
\* once.
C6_NoRetry ==
    \A c \in Calls :
        /\ calls[c].nfetch <= 1
        /\ calls[c].pc = "idle" => calls[c].nfetch = 0
        /\ calls[c].pc # "idle" /\ calls[c].args.tag # "circular"
            => calls[c].nfetch = 1
        /\ calls[c].pc # "idle" /\ calls[c].args.tag = "circular"
            => /\ calls[c].nfetch = 0
               /\ Len(calls[c].logs) = 1
               /\ calls[c].nsettle = 1
               /\ calls[c].outcome.kind = "rejected"
               /\ calls[c].outcome.error.name = "TypeError"
        /\ calls[c].pc = "fetching"
            => calls[c].req.method = "POST" /\ calls[c].req.url = "/api/invoke"
        /\ calls[c].failed
            => /\ Len(calls[c].logs) = 1
               /\ calls[c].nsettle = 1
               /\ calls[c].outcome.kind = "rejected"
C6_Witness ==
    \E c \in Calls :
        /\ calls[c].failed /\ calls[c].nfetch = 1
        /\ Len(calls[c].logs) = 1 /\ calls[c].pc = "rejected"

\* C7: a rejected call has logged exactly one entry, carrying its command
\* and the very error it rejects with; the error of a transport failure or
\* of a malformed body is the one the transport threw; a call that resolved
\* or is still pending has logged nothing.
C7_LogThenRethrow ==
    \A c \in Calls :
        /\ calls[c].outcome.kind = "rejected"
            => calls[c].logs =
                 <<[cmd |-> calls[c].cmd, error |-> calls[c].outcome.error]>>
        /\ calls[c].outcome.kind # "rejected" => calls[c].logs = <<>>
        /\ calls[c].failed
            => calls[c].outcome.error.message = <<"Failed to fetch">>
        /\ calls[c].body.kind = "unparsable"
            => calls[c].outcome.error.name = "SyntaxError"
        /\ calls[c].pc \notin {"idle", "fetching", "reading"}
            => calls[c].outcome.kind # "pending"
C7_Witness ==
    \E c \in Calls :
        /\ calls[c].body.kind = "unparsable"
        /\ calls[c].outcome.kind = "rejected"
        /\ calls[c].logs # <<>>
        /\ calls[c].logs[1].cmd = calls[c].cmd

\* C8: every step changes the state of one call only; a pending call settles
\* only on its own transport failure or its own response body; and two calls
\* with the same command and the same transport response have the same
\* outcome.
C8_StepIndependence ==
    \A c \in Calls :
        /\ \A d \in Calls \ {c} :
              calls[c]' # calls[c] => calls[d]' = calls[d]
        /\ (InFlight(c) /\ Settled(c)')
              => \/ calls[c].pc = "fetching" /\ calls[c]'.failed
                 \/ calls[c].pc = "reading" /\ calls[c]'.body # NoBody
C8_SameInputsSameOutcome ==
    \A c, d \in Calls :
        /\ Settled(c) /\ Settled(d)
        /\ calls[c].cmd = calls[d].cmd
        /\ calls[c].failed = calls[d].failed
        /\ calls[c].status = calls[d].status
        /\ calls[c].body = calls[d].body
        => /\ calls[c].outcome = calls[d].outcome
           /\ calls[c].logs = calls[d].logs
C8_Independent == [][C8_StepIndependence]_vars /\ []C8_SameInputsSameOutcome
C8_Witness ==
    \E c, d \in Calls :
        /\ c # d
        /\ calls[c].outcome.kind = "rejected"
        /\ InFlight(d) /\ calls[d].outcome.kind = "pending"
        /\ calls[c].cmd # calls[d].cmd

\* C9: under a transport that eventually responds or fails, every started
\* call eventually settles (again and again every call is either not started
\* or settled, and a started call never returns to idle); it settles once,
\* and a settled call never changes again.
C9_SettledStays ==
    \A c \in Calls :
        /\ calls[c].nsettle' <= 1
        /\ Settled(c) => calls[c]' = calls[c]
C9_AllSettled == \A c \in Calls : calls[c].pc = "idle" \/ Settled(c)
C9_RunsToCompletion ==
    /\ []<>C9_AllSettled
    /\ [][C9_SettledStays]_vars
C9_Witness ==
    \A c \in Calls : Settled(c) /\ calls[c].nsettle = 1

\* ---------------------------------------------- properties of fetchData
\* C10: accountData and summary are always a pair from one fetchData and one
\* hours window, set only by the step that completes both parallel calls of
\* that fetchData; a fetchData one of whose two calls rejected never sets
\* either of them.
C10_JointView ==
    /\ accountData = summary
    /\ accountData.by # 0 =>
        /\ fetches[accountData.by].acc = "ok"
        /\ fetches[accountData.by].sum = "ok"
        /\ accountData.hours =
             (CASE fetches[accountData.by].range = "hourly" -> 24
                [] fetches[accountData.by].range = "daily" -> 168
                [] fetches[accountData.by].range = "weekly" -> 720)
    /\ \A f \in Fetches :
        fetches[f].acc = "err" \/ fetches[f].sum = "err"
            => accountData.by # f /\ summary.by # f
C10_UpdateOnlyOnJoin ==
    (accountData' # accountData \/ summary' # summary) =>
        \E f \in Fetches :
            /\ fetches[f].pc = "join" /\ fetches'[f].pc = "done"
            /\ fetches'[f].acc = "ok" /\ fetches'[f].sum = "ok"
            /\ accountData'.by = f /\ summary'.by = f
C10_RejectChangesNothing ==
    \A f \in Fetches :
        (fetches'[f].acc = "err" /\ fetches[f].acc # "err")
        \/ (fetches'[f].sum = "err" /\ fetches[f].sum # "err")
            => accountData' = accountData /\ summary' = summary
C10_JoinStyle ==
    /\ []C10_JointView
    /\ [][C10_UpdateOnlyOnJoin /\ C10_RejectChangesNothing]_vars
C10_Witness ==
    \E f, g \in Fetches :
        /\ f # g
        /\ accountData.by = f /\ summary.by = f
        /\ fetches[g].pc = "done" /\ fetches[g].acc = "ok"
        /\ fetches[g].sum = "err"

\* ------------------------------------- properties of completeOAuthLogin
\* C11: when the invoker rejects complete_oauth_login with a backend-provided
\* message, completeOAuthLogin rejects with the localized
\* accounts.add.oauth_error message built from it if the message contains
\* neither 'Refresh Token' nor 'refresh_token', and with the original error
\* unchanged if it contains one of them.
C11_Original ==
    /\ login.pc = "rejected"
    /\ login.body.kind = "object"
    /\ login.body.error \notin {Absent, ""}
    => IF login.body.error \in {"invalid refresh_token",
                                "No Refresh Token returned"}
       THEN login.outcome.error = login.invoked.error
       ELSE login.outcome.error =
              [name |-> "string",
               message |-> <<"accounts.add.oauth_error", login.body.error>>]

\* ------------------------------------------- properties of the dashboard
AllFetchesFinished ==
    /\ Started # {}
    /\ \A f \in Fetches :
        /\ fetches[f].pc \in {"idle", "done"}
        /\ fetches[f].acc # "pending" /\ fetches[f].sum # "pending"
LatestFetchSucceeded ==
    \E f \in Started :
        /\ \A g \in Started : g <= f
        /\ fetches[f].acc = "ok" /\ fetches[f].sum = "ok"

\* C12: once all fetches have finished, and the one started last (for the
\* selected time range) succeeded, the displayed chartData, accountData and
\* summary are those fetched for the selected time range, whatever the order
\* in which the backend calls completed.
C12_Original ==
    AllFetchesFinished /\ LatestFetchSucceeded =>
        /\ chartData.range = timeRange
        /\ accountData.hours =
             (CASE timeRange = "hourly" -> 24
                [] timeRange = "daily" -> 168
                [] timeRange = "weekly" -> 720)
        /\ summary.hours = accountData.hours

\* C13: loading is true whenever a fetchData is in flight, and false once
\* every started fetchData has finished.
C13_Original ==
    /\ (\E f \in Fetches : fetches[f].pc \in {"chart", "join"}) => loading
    /\ (Started # {} /\ \A f \in Started : fetches[f].pc = "done") => ~loading

\* ------------------------------------- properties of the OAuthCallback page
FailureShown == page.message[1] \in {"OAuth failed: ", "Missing OAuth code."}

\* C14 as stated: completeOAuthLogin is called only when the URL has a code
\* and no error parameter; navigation is scheduled only after it resolved;
\* with an error parameter, without a code, or after a rejection the page
\* shows a failure message and never navigates.
C14_Original ==
    /\ page.ncalls > 0 => page.code # Null /\ page.error = Null
    /\ page.navScheduled => page.pc = "resolved"
    /\ page.navigated => page.navScheduled
    /\ page.pc # "unmounted"
         /\ (page.error # Null \/ page.code = Null \/ page.pc = "rejected")
       => FailureShown /\ ~page.navScheduled /\ ~page.navigated

\* C14 amended: completeOAuthLogin is called, once, only when the URL has a
\* non-empty code and no non-empty error parameter; navigation is scheduled
\* only after it resolved; with a non-empty error parameter, without a
\* non-empty code, or after a rejection the page shows a failure message and
\* never navigates.
C14_CallbackSafety ==
    /\ page.ncalls <= 1
    /\ page.ncalls > 0
         => page.code \notin {Null, ""} /\ page.error \in {Null, ""}
    /\ page.navScheduled => page.pc = "resolved" /\ page.ncalls = 1
    /\ page.navigated => page.navScheduled
    /\ page.pc # "unmounted"
         /\ (page.error \notin {Null, ""} \/ page.code \in {Null, ""}
             \/ page.pc = "rejected")
       => FailureShown /\ ~page.navScheduled /\ ~page.navigated
C14_Witness ==
    /\ page.navigated /\ page.pc = "resolved"
    /\ page.code = "abc" /\ page.error = ""

\* --------------------------------------------- properties of pickTextFile
\* C15: the promise never rejects and settles at most once; it is null when
\* the change event carried no file or reading failed, and {name, content}
\* of the first file when reading succeeded; once the picker was opened and
\* nothing more can happen to it, the promise is resolved.
C15_Original ==
    /\ picker.promise.kind # "rejected"
    /\ picker.nsettle <= 1
    /\ picker.pc = "done" /\ picker.file = Null => picker.promise = PickNull
    /\ picker.pc = "done" /\ picker.file # Null
         => \/ picker.promise = PickNull
            \/ /\ picker.promise.kind = "resolved"
               /\ picker.promise.name = picker.file
    /\ picker.pc \in {"done", "dismissed"} => picker.promise.kind = "resolved"

====
